---- MODULE Spec2Model ----
(***************************************************************************)
(* The login menu of src/commands/menu.py: the menu nodes (start,          *)
(* username, ask_password, create_account, create_username,                *)
(* create_password, create_email_address, validate_account, quit,          *)
(* check_temporary_password, change_temporary_password), the password      *)
(* generator, and the services they call (account manager, ban list,       *)
(* e-mail, session handler), for several sessions on one account store.    *)
(*                                                                         *)
(* Strings are sequences of one-character strings, so that strip(),        *)
(* lower(), len() and the regular expression are computed, not assumed.    *)
(***************************************************************************)
EXTENDS Integers, Sequences, FiniteSets, TLC

VARIABLES
    sess,       \* session -> the session's menu state (caller.ndb._menutree, echo, connection)
    accounts,   \* username -> the account's stored fields (the account manager's table)
    bans,       \* ServerConfig "server_bans": a sequence of <<name, ip, ipregex>>
    sent,       \* the e-mails the latest node handed to send_email, as a set of records
    issued,     \* username -> how many temporary passwords username() has sent for it
    gen         \* the call of _generate_password under way: its arguments and locals

vars == <<sess, accounts, bans, sent, issued, gen>>

-----------------------------------------------------------------------------
(* Bounds of the model *)

NumSessions == 2
MaxAccounts == 2

Sessions == 1..NumSessions

-----------------------------------------------------------------------------
(* Characters and strings *)

Range(f) == {f[i] : i \in DOMAIN f}

ascii_lowercase ==
    <<"a","b","c","d","e","f","g","h","i","j","k","l","m",
      "n","o","p","q","r","s","t","u","v","w","x","y","z">>

ascii_uppercase ==
    <<"A","B","C","D","E","F","G","H","I","J","K","L","M",
      "N","O","P","Q","R","S","T","U","V","W","X","Y","Z">>

digits == <<"0","1","2","3","4","5","6","7","8","9">>

whitespace == {" ", "\t"}

lower_char(c) ==
    IF \E i \in DOMAIN ascii_uppercase : ascii_uppercase[i] = c
    THEN ascii_lowercase[CHOOSE i \in DOMAIN ascii_uppercase : ascii_uppercase[i] = c]
    ELSE c

lower(str) == [i \in 1..Len(str) |-> lower_char(str[i])]

RECURSIVE lstrip(_)
lstrip(str) ==
    IF str # <<>> /\ Head(str) \in whitespace THEN lstrip(Tail(str)) ELSE str

RECURSIVE rstrip(_)
rstrip(str) ==
    IF str # <<>> /\ str[Len(str)] \in whitespace
    THEN rstrip(SubSeq(str, 1, Len(str) - 1))
    ELSE str

strip(str) == rstrip(lstrip(str))

-----------------------------------------------------------------------------
(* Constants of the menu *)

LEN_PASSWD == 6

\* Mutant: two letters are enough.
RE_VALID_USERNAME_two(str) ==
    /\ Len(str) >= 2
    /\ \A i \in 1..Len(str) : lower_char(str[i]) \in Range(ascii_lowercase)

\* RE_VALID_USERNAME = re.compile(r"^[a-z]{3,}$", re.I), used with .search().
RE_VALID_USERNAME(str) ==
    /\ Len(str) >= 3
    /\ \A i \in 1..Len(str) : lower_char(str[i]) \in Range(ascii_lowercase)

\* A value of account.db.validation_code that no input line equals: the
\* attribute is absent (None), which differs from every string, "" included.
NoCode == <<"None">>

\* menutree.account when no account object is held (unset, or False).
NoAccount == <<>>

-----------------------------------------------------------------------------
(* The password generator *)

\* Mutant: the byte is scaled by 255.
byte_index_by_255(charset, byte) == (Len(charset) * byte) \div 255

\* Mutant: the division is the integer division of ord(byte) / 256.
byte_index_integer_division(charset, byte) == Len(charset) * (byte \div 256)

\* indices = [int(len(charset) * (ord(byte) / 256.0)) for byte in random_bytes]
\* ord(byte) / 256.0 and its product with len(charset) are exact in floating
\* point, and int() of a value that is not negative is its floor.
byte_index(charset, byte) == (Len(charset) * byte) \div 256

\* _generate_password(length, charset), with os.urandom(length) as random_bytes.
\* charset[index] is 0-based in the source and 1-based here.
generate_password(length, charset, random_bytes) ==
    [i \in 1..length |-> charset[byte_index(charset, random_bytes[i]) + 1]]

\* The outcomes of os.urandom(length) the model draws from: one byte
\* sequence per seed, byte i being seed + 37 * (i - 1) modulo 256.
UrandomSeeds == {0, 250}

urandom(length) ==
    { [i \in 1..length |-> (seed + 37 * (i - 1)) % 256] : seed \in UrandomSeeds }

temp_password_charset == ascii_lowercase \o digits

\* No call of _generate_password is under way.
NoCall ==
    [pc |-> "idle", length |-> 0, charset |-> <<>>,
     random_bytes |-> <<>>, password |-> <<>>]

-----------------------------------------------------------------------------
(* Services the menu calls *)

\* managers.accounts.get_account_from_name(name): case-insensitive exact match.
get_account_from_name(accts, name) ==
    IF \E k \in DOMAIN accts : lower(k) = lower(name)
    THEN CHOOSE k \in DOMAIN accts : lower(k) = lower(name)
    ELSE NoAccount

\* account.check_password(candidate): the hash of candidate equals the stored hash.
check_password(acc, candidate) == acc.password = candidate

\* account.validate_password(candidate): the account-level password policy,
\* here the minimum length of 8 of the default validators.
validate_password(candidate) == Len(candidate) >= 8

\* validate_email(address): user@domain with a dotted domain.
email_chars == Range(ascii_lowercase) \cup Range(ascii_uppercase) \cup Range(digits)

validate_email(address) ==
    \E at \in 1..Len(address) :
        /\ address[at] = "@"
        /\ \A j \in (at + 1)..Len(address) : address[j] # "@"
        /\ at > 1
        /\ \A j \in 1..(at - 1) : address[j] \in email_chars \cup {".", "_", "-"}
        /\ address[1] # "." /\ address[at - 1] # "."
        /\ Len(address) > at + 2
        /\ \A j \in (at + 1)..Len(address) : address[j] \in email_chars \cup {".", "-"}
        /\ \E j \in (at + 2)..(Len(address) - 1) : address[j] = "."
        /\ address[at + 1] # "." /\ address[Len(address)] # "."
        /\ \A j \in (at + 1)..(Len(address) - 1) :
              ~(address[j] = "." /\ address[j + 1] = ".")

\* A compiled ban pattern matched with .match(): one entry per octet, Wild for "*";
\* .match() anchors at the start only, so a pattern matches every address it prefixes.
Wild == -1

ipregex_match(ipregex, address) ==
    /\ Len(ipregex) <= Len(address)
    /\ \A i \in 1..Len(ipregex) : ipregex[i] = Wild \/ ipregex[i] = address[i]

\* Mutant: only the name bans are looked at.
is_banned_by_name_only(banlist, account_name, address) ==
    /\ banlist # <<>>
    /\ \E i \in 1..Len(banlist) : banlist[i][1] = lower(account_name)

\* banned = bans and (any(tup[0] == account.name.lower() for tup in bans) or
\*                    any(tup[2].match(caller.address) for tup in bans if tup[2]))
is_banned(banlist, account_name, address) ==
    /\ banlist # <<>>
    /\ \/ \E i \in 1..Len(banlist) : banlist[i][1] = lower(account_name)
       \/ \E i \in 1..Len(banlist) :
             banlist[i][3] # <<>> /\ ipregex_match(banlist[i][3], address)

\* caller.address of each session.
Address(s) == <<10, 0, 0, s>>

-----------------------------------------------------------------------------
(* The session's menu state and the menu engine *)

\* An option is <<key, goto, exec>>; exec is "echo_on" for
\* lambda caller: caller.msg("", options={"echo": True}), else "none".
NoOption == <<"", "", "">>

KeyText(key) ==
    CASE key = "nouveau" -> <<"n","o","u","v","e","a","u">>
      [] key = "quit"    -> <<"q","u","i","t">>
      [] key = "r"       -> <<"r">>
      [] OTHER           -> <<"_","d","e","f","a","u","l","t">>

\* The option an input line selects: a key it equals once stripped and
\* lowercased, else the _default option, else none.
option_for(options, raw_string) ==
    LET cmd == lower(strip(raw_string)) IN
    IF \E o \in options : o[1] # "_default" /\ KeyText(o[1]) = cmd
    THEN CHOOSE o \in options : o[1] # "_default" /\ KeyText(o[1]) = cmd
    ELSE IF \E o \in options : o[1] = "_default"
    THEN CHOOSE o \in options : o[1] = "_default"
    ELSE NoOption

\* A session before its connection: no menu yet.
NoSession ==
    [status |-> "none", node |-> "none", text |-> "", options |-> {},
     msgs |-> <<>>, echo |-> TRUE, account |-> NoAccount,
     password_attempts |-> 0, accountname |-> <<>>,
     farewell |-> "", player |-> NoAccount]

\* caller.sessionhandler.disconnect(caller, reason)
disconnect(st, reason) == [st EXCEPT !.status = "disconnected", !.farewell = reason]

\* caller.sessionhandler.login(caller, account)
login(st, account) == [st EXCEPT !.status = "loggedin", !.player = account]

\* What a node returns: the session with the node's text and options, the
\* account table, the e-mails sent, and whether the node raised.
Result(st, accts, mail) == [st |-> st, accounts |-> accts, mail |-> mail, raised |-> FALSE]

Raised(st, accts) == [st |-> st, accounts |-> accts, mail |-> {}, raised |-> TRUE]

Node(st, node, text, options) ==
    [st EXCEPT !.node = node, !.text = text, !.options = options]

-----------------------------------------------------------------------------
(* Menu nodes *)

\* Mutant: coming back to start clears the count of wrong passwords.
start_resets_attempts(st, accts) ==
    Result(Node([st EXCEPT !.password_attempts = 0], "start", "start",
                { <<"nouveau", "create_account", "none">>,
                  <<"quit", "quit", "none">>,
                  <<"_default", "username", "none">> }),
           accts, {})

\* Mutant: the quit option is missing.
start_without_quit(st, accts) ==
    Result(Node(st, "start", "start",
                { <<"nouveau", "create_account", "none">>,
                  <<"_default", "username", "none">> }),
           accts, {})

start(st, accts) ==
    Result(Node(st, "start", "start",
                { <<"nouveau", "create_account", "none">>,
                  <<"quit", "quit", "none">>,
                  <<"_default", "username", "none">> }),
           accts, {})

\* Mutant: an unknown name goes on to the password prompt.
username_unknown_to_password(st) ==
    [st EXCEPT !.node = "username", !.text = "username_unknown",
               !.options = { <<"r", "start", "none">>,
                             <<"_default", "ask_password", "none">> }]

\* username: account is None
username_unknown(st) ==
    Node(st, "username", "username_unknown",
         { <<"r", "start", "none">>,
           <<"_default", "username", "none">> })

\* Mutant: sent_validation is not looked at.
needs_recovery_again(acc) ==
    /\ acc.email # <<>>
    /\ ~(acc.valid \/ acc.validation_code # NoCode)

\* account.email and not any([account.db.valid, account.db.sent_validation,
\*                            account.db.validation_code])
\* Mutant: being valid does not keep an account from recovery.
needs_recovery_of_valid(acc) ==
    /\ acc.email # <<>>
    /\ ~(acc.sent_validation \/ acc.validation_code # NoCode)

needs_recovery(acc) ==
    /\ acc.email # <<>>
    /\ ~(acc.valid \/ acc.sent_validation \/ acc.validation_code # NoCode)

\* Mutant: the branch for a temporary password sent before is never taken.
recovery_pending_never(acc) == FALSE

\* not account.db.valid and account.db.sent_validation
recovery_pending(acc) == ~acc.valid /\ acc.sent_validation

\* Mutant: the temporary password is e-mailed but not set on the account.
username_recover_unset(st, accts, account, random_bytes) ==
    LET password == generate_password(6, temp_password_charset, random_bytes) IN
    Result(Node([st EXCEPT !.account = account],
                "username", "temp_password_sent",
                { <<"_default", "check_temporary_password", "none">> }),
           [accts EXCEPT ![account].sent_validation = TRUE],
           { [to |-> accts[account].email, account |-> account,
              kind |-> "temp_password", secret |-> password] })

\* Mutant: after the e-mail the ordinary password prompt follows.
username_recover_to_ask_password(st, accts, account, random_bytes) ==
    LET password == generate_password(6, temp_password_charset, random_bytes) IN
    Result(Node([st EXCEPT !.account = account],
                "username", "temp_password_sent",
                { <<"_default", "ask_password", "none">> }),
           [accts EXCEPT ![account].password = password,
                         ![account].sent_validation = TRUE],
           { [to |-> accts[account].email, account |-> account,
              kind |-> "temp_password", secret |-> password] })

\* username: the account is not valid yet; set a random password and e-mail it
username_recover(st, accts, account, random_bytes) ==
    LET password == generate_password(6, temp_password_charset, random_bytes) IN
    Result(Node([st EXCEPT !.account = account],
                "username", "temp_password_sent",
                { <<"_default", "check_temporary_password", "none">> }),
           [accts EXCEPT ![account].password = password,
                         ![account].sent_validation = TRUE],
           { [to |-> accts[account].email, account |-> account,
              kind |-> "temp_password", secret |-> password] })

\* username: the temporary password was sent before
username_pending(st, account) ==
    Node([st EXCEPT !.account = account],
         "username", "ask_temp_password",
         { <<"_default", "check_temporary_password", "none">> })

\* Mutant: echo is left on for the password.
username_found_echo_on(st, account) ==
    Node([st EXCEPT !.account = account],
         "username", "ask_password",
         { <<"r", "start", "echo_on">>,
           <<"_default", "ask_password", "none">> })

\* username: ask for the account's password, echo off
username_found(st, account) ==
    Node([st EXCEPT !.account = account, !.echo = FALSE],
         "username", "ask_password",
         { <<"r", "start", "echo_on">>,
           <<"_default", "ask_password", "none">> })

username(st, accts, string_input, random_bytes) ==
    LET input == strip(string_input)
        account == get_account_from_name(accts, input)
    IN  IF account = NoAccount
        THEN Result(username_unknown(st), accts, {})
        ELSE IF needs_recovery(accts[account])
        THEN username_recover(st, accts, account, random_bytes)
        ELSE IF recovery_pending(accts[account])
        THEN Result(username_pending(st, account), accts, {})
        ELSE Result(username_found(st, account), accts, {})

\* Mutant: the lockout threshold is off by one.
ask_password_too_many_late(password_attempts) == password_attempts > 3

\* ask_password: password_attempts > 2
ask_password_too_many(password_attempts) == password_attempts > 2

\* ask_password: the password is wrong
ask_password_failed(st) ==
    LET password_attempts == st.password_attempts + 1 IN
    IF ask_password_too_many(password_attempts)
    THEN Node(disconnect(st, "too_many_attempts"), "ask_password", "", {})
    ELSE Node([st EXCEPT !.password_attempts = password_attempts],
              "ask_password", "invalid_password",
              { <<"r", "start", "echo_on">>,
                <<"_default", "ask_password", "none">> })

\* ask_password: a banned IP or name
ask_password_banned(st) ==
    Node(disconnect(st, "banned"), "ask_password", "", {})

\* Mutant: the validation code is looked at before the e-mail.
ask_password_passed_code_first(st, acc) ==
    IF acc.validation_code # NoCode
    THEN Node(st, "ask_password", "code_pending",
              { <<"_default", "validate_account", "none">> })
    ELSE IF acc.email = <<>>
    THEN Node(st, "ask_password", "no_email",
              { <<"_default", "create_email_address", "none">> })
    ELSE Node(login([st EXCEPT !.echo = TRUE], st.account),
              "ask_password", "", {})

\* ask_password: the password is right and there is no ban
ask_password_passed(st, acc) ==
    IF acc.email = <<>>
    THEN Node(st, "ask_password", "no_email",
              { <<"_default", "create_email_address", "none">> })
    ELSE IF acc.validation_code # NoCode
    THEN Node(st, "ask_password", "code_pending",
              { <<"_default", "validate_account", "none">> })
    ELSE Node(login([st EXCEPT !.echo = TRUE], st.account),
              "ask_password", "", {})

\* Mutant: the ban is looked at before the password.
ask_password_ban_first(st, accts, banlist, address, string_input) ==
    LET input == strip(string_input)
        account == st.account
        banned == is_banned(banlist, account, address)
    IN  IF banned
        THEN Result(ask_password_banned(st), accts, {})
        ELSE IF ~check_password(accts[account], input)
        THEN Result(ask_password_failed(st), accts, {})
        ELSE Result(ask_password_passed(st, accts[account]), accts, {})

ask_password(st, accts, banlist, address, string_input) ==
    LET input == strip(string_input)
        account == st.account
        banned == is_banned(banlist, account, address)
    IN  IF ~check_password(accts[account], input)
        THEN Result(ask_password_failed(st), accts, {})
        ELSE IF banned
        THEN Result(ask_password_banned(st), accts, {})
        ELSE Result(ask_password_passed(st, accts[account]), accts, {})

\* Mutant: the name prompt leads straight to create_password.
create_account_to_password(st, accts) ==
    Result(Node(st, "create_account", "enter_new_username",
                { <<"_default", "create_password", "none">> }),
           accts, {})

create_account(st, accts) ==
    Result(Node(st, "create_account", "enter_new_username",
                { <<"_default", "create_username", "none">> }),
           accts, {})

\* Mutant: after a refused name only r is offered.
create_username_rejected_only_r(st, text) ==
    Node(st, "create_username", text, { <<"r", "start", "none">> })

\* create_username: the name exists, or is not valid
create_username_rejected(st, text) ==
    Node(st, "create_username", text,
         { <<"r", "start", "none">>,
           <<"_default", "create_username", "none">> })

\* create_username: a valid username, continue with the password
create_username_accepted(st, string_input) ==
    Node([st EXCEPT !.accountname = string_input, !.echo = FALSE],
         "create_username", "enter_new_password",
         { <<"_default", "create_password", "none">> })

create_username(st, accts, string_input) ==
    LET input == strip(string_input)
        account == get_account_from_name(accts, input)
    IN  IF account # NoAccount
        THEN Result(create_username_rejected(st, "username_exists"), accts, {})
        ELSE IF ~RE_VALID_USERNAME(input)
        THEN Result(create_username_rejected(st, "username_invalid"), accts, {})
        ELSE Result(create_username_accepted(st, input), accts, {})

\* Mutant: no option is left when the creation raises.
create_password_options_none == {}

\* The options create_password starts with, kept unless the account is created.
create_password_options ==
    { <<"r", "start", "echo_on">>,
      <<"_default", "create_password", "none">> }

\* The fields of an account unloggedin._create_account has just created;
\* its db attributes (valid, sent_validation, validation_code) are absent.
NewAccount(password) ==
    [password |-> password, email |-> <<>>, valid |-> FALSE,
     sent_validation |-> FALSE, validation_code |-> NoCode,
     recorded_email |-> <<>>]

\* Mutant: five characters are enough.
create_password_too_short_five(password) == Len(password) < LEN_PASSWD - 1

\* create_password: len(password) < LEN_PASSWD
create_password_too_short(password) == Len(password) < LEN_PASSWD

\* create_password; outcome is what unloggedin._create_account and the
\* statements after it did:
\*   "created"  the account was created and nothing raised
\*   "failed"   _create_account caught an error, told the session and returned False
\*   "raised"   an exception reached create_password before an account existed
\*   "raised_after"  the account was created and a later statement raised
create_password(st, accts, string_input, outcome) ==
    LET password == strip(string_input)
        accountname == st.accountname
        created == accts @@ (accountname :> NewAccount(password))
    IN  IF create_password_too_short(password)
        THEN Result(Node(st, "create_password", "password_too_short",
                         create_password_options), accts, {})
        ELSE IF outcome \in {"raised", "raised_after"}
        THEN Result(Node([st EXCEPT !.msgs = <<"apology">>],
                         "create_password", "", create_password_options),
                    IF outcome = "raised_after" THEN created ELSE accts, {})
        ELSE Result(Node([st EXCEPT
                            !.account = IF outcome = "created" THEN accountname
                                        ELSE NoAccount,
                            !.msgs = IF outcome = "created" THEN <<>>
                                     ELSE <<"create_error">>,
                            !.echo = TRUE],
                         "create_password", "account_created",
                         { <<"_default", "create_email_address", "none">> }),
                    IF outcome = "created" THEN created ELSE accts, {})

create_email_address(st, accts, email_address, random_bytes) ==
    LET address == strip(email_address)
        account == st.account
        validation_code == generate_password(4, digits, random_bytes)
    IN  IF ~validate_email(address)
        THEN Result(Node(st, "create_email_address", "email_invalid",
                         { <<"_default", "create_email_address", "none">> }),
                    accts, {})
        ELSE IF account = NoAccount
        THEN Raised(st, accts)
        ELSE Result(Node(st, "create_email_address", "code_sent",
                         { <<"_default", "validate_account", "none">> }),
                    [accts EXCEPT ![account].email = address,
                                  ![account].validation_code = validation_code],
                    { [to |-> address, account |-> account,
                       kind |-> "validation_code", secret |-> validation_code] })

\* Mutant: a wrong code is counted like a wrong password.
validate_account_mismatch_counted(st) ==
    IF st.password_attempts + 1 > 2
    THEN Node(disconnect(st, "too_many_attempts"), "validate_account", "", {})
    ELSE Node([st EXCEPT !.password_attempts = @ + 1],
              "validate_account", "code_mismatch",
              { <<"_default", "validate_account", "none">> })

\* validate_account: the code is not the one expected
validate_account_mismatch(st) ==
    Node(st, "validate_account", "code_mismatch",
         { <<"_default", "validate_account", "none">> })

\* Mutant: the code is left on the account.
validate_account_matched_keeps_code(st, accts, account) ==
    Result(Node(login([st EXCEPT !.msgs = <<"welcome">>], account),
                "validate_account", "", {}),
           [accts EXCEPT ![account].valid = TRUE,
                         ![account].recorded_email = accts[account].email],
           {})

\* validate_account: the code is the one expected
validate_account_matched(st, accts, account) ==
    Result(Node(login([st EXCEPT !.msgs = <<"welcome">>], account),
                "validate_account", "", {}),
           [accts EXCEPT ![account].valid = TRUE,
                         ![account].validation_code = NoCode,
                         ![account].recorded_email = accts[account].email],
           {})

validate_account(st, accts, input) ==
    LET account == st.account IN
    IF account = NoAccount
    THEN Raised(st, accts)
    ELSE IF accts[account].validation_code # strip(input)
    THEN Result(validate_account_mismatch(st), accts, {})
    ELSE validate_account_matched(st, accts, account)

\* Mutant: quit disconnects but leaves a way back to start.
quit_with_options(st, accts) ==
    Result(Node(disconnect(st, "goodbye"), "quit", "",
                { <<"_default", "start", "none">> }), accts, {})

quit(st, accts) ==
    Result(Node(disconnect(st, "goodbye"), "quit", "", {}), accts, {})

\* Mutant: the lockout threshold is off by one.
check_temporary_too_many_late(password_attempts) == password_attempts > 3

\* check_temporary_password: password_attempts > 2
check_temporary_too_many(password_attempts) == password_attempts > 2

check_temporary_password(st, accts, string_input) ==
    LET input == strip(string_input)
        account == st.account
        password_attempts == st.password_attempts + 1
    IN  IF ~check_password(accts[account], input)
        THEN IF check_temporary_too_many(password_attempts)
             THEN Result(Node(disconnect(st, "too_many_attempts"),
                              "check_temporary_password", "", {}), accts, {})
             ELSE Result(Node([st EXCEPT !.password_attempts = password_attempts],
                              "check_temporary_password", "invalid_password",
                              { <<"_default", "check_temporary_password", "none">> }),
                         accts, {})
        ELSE Result(Node(st, "check_temporary_password", "temp_password_valid",
                         { <<"_default", "change_temporary_password", "none">> }),
                    accts, {})

\* Mutant: the account is made valid but keeps the temporary password.
change_temporary_password_accepted_unset(st, accts, account, input) ==
    Result(Node(login([st EXCEPT !.echo = TRUE], account),
                "change_temporary_password", "", {}),
           [accts EXCEPT ![account].valid = TRUE],
           {})

\* change_temporary_password: the new password passes the policy
change_temporary_password_accepted(st, accts, account, input) ==
    Result(Node(login([st EXCEPT !.echo = TRUE], account),
                "change_temporary_password", "", {}),
           [accts EXCEPT ![account].password = input,
                         ![account].valid = TRUE],
           {})

change_temporary_password(st, accts, string_input) ==
    LET input == strip(string_input)
        account == st.account
    IN  IF validate_password(input)
        THEN change_temporary_password_accepted(st, accts, account, input)
        ELSE Result(Node(st, "change_temporary_password", "password_invalid",
                         { <<"_default", "change_temporary_password", "none">> }),
                    accts, {})

-----------------------------------------------------------------------------
(* The lines a user may type, and the initial account table and ban list *)

in_bob      == <<"b","o","b">>
in_Bob      == <<" ","B","o","b">>
in_abc      == <<"a","b","c">>
in_ab       == <<"a","b">>
in_ab2      == <<"a","b","2">>
in_nouveau  == <<"N","o","u","v","e","a","u">>
in_quit     == <<"q","u","i","t">>
in_r        == <<"r">>
in_secret1  == <<"s","e","c","r","e","t","1">>
in_hunter22 == <<"h","u","n","t","e","r","2","2">>
in_email    == <<"a","@","x",".","y">>

bob_email   == <<"b","@","x",".","y">>
bob_code    == <<"4","2","4","2">>

BaseInputs ==
    { in_bob, in_Bob, in_abc, in_ab, in_ab2, in_nouveau, in_quit, in_r,
      in_secret1, in_hunter22, in_email }

\* A user also types what the e-mails said: the validation code and the
\* (temporary) password an account holds now. A secret that was replaced
\* since is one more wrong guess.
Secrets ==
    { accounts[k].password : k \in DOMAIN accounts }
    \cup ({ accounts[k].validation_code : k \in DOMAIN accounts } \ {NoCode})

Inputs == BaseInputs \cup Secrets

\* The account "bob" exists before the menu runs, in any combination of
\* e-mail on file, valid, sent_validation and validation_code.
InitialAccounts ==
    { (in_bob :> [password |-> in_secret1, email |-> e, valid |-> v,
                  sent_validation |-> sv, validation_code |-> c,
                  recorded_email |-> <<>>]) :
        e \in {<<>>, bob_email}, v \in BOOLEAN, sv \in BOOLEAN,
        c \in {NoCode, bob_code} }

\* No ban, a ban of the name bob, or a ban of the addresses 10.0.0.1 and 10.0.*.1.
InitialBans ==
    { <<>>,
      << <<in_bob, <<>>, <<>> >> >>,
      << <<<<>>, <<10, 0, Wild, 1>>, <<10, 0, Wild, 1>> >> >> }

-----------------------------------------------------------------------------
(* Actions: one per menu node, run by the menu engine on an input line *)

\* The input line selects an option whose goto is node.
Enters(s, raw_string, node) ==
    /\ sess[s].status = "menu"
    /\ option_for(sess[s].options, raw_string)[2] = node

\* The session once the selected option's exec has run.
Before(s, raw_string) ==
    LET o == option_for(sess[s].options, raw_string) IN
    [sess[s] EXCEPT !.echo = IF o[3] = "echo_on" THEN TRUE ELSE @,
                    !.msgs = <<>>]

\* The engine takes the node's text and options; a node that raised leaves
\* the menu where it was and the user gets the engine's error message.
Shows(s, before, r) ==
    /\ sess' = [sess EXCEPT ![s] = IF r.raised
                                   THEN [before EXCEPT !.msgs = <<"menu_error">>]
                                   ELSE r.st]
    /\ accounts' = r.accounts
    /\ sent' = r.mail
    /\ issued' = [k \in DOMAIN r.accounts |->
                    (IF k \in DOMAIN issued THEN issued[k] ELSE 0)
                    + Cardinality({m \in r.mail : m.kind = "temp_password"
                                                  /\ m.account = k})]
    /\ UNCHANGED <<bans, gen>>

\* What the directory can answer when asked to create accountname.
CreateOutcomes(accts, accountname) ==
    {"failed", "raised"}
    \cup IF /\ get_account_from_name(accts, accountname) = NoAccount
            /\ Cardinality(DOMAIN accts) < MaxAccounts
         THEN {"created", "raised_after"}
         ELSE {}

\* CmdUnloggedinLook.func: EvMenu(caller, "commands.menu", startnode="start", ...)
Connect(s) ==
    /\ sess[s].status # "menu"
    /\ Shows(s, NoSession, start([NoSession EXCEPT !.status = "menu"], accounts))

Start(s, raw) ==
    /\ Enters(s, raw, "start")
    /\ Shows(s, Before(s, raw), start(Before(s, raw), accounts))

Username(s, raw) ==
    /\ Enters(s, raw, "username")
    /\ \E random_bytes \in urandom(6) :
          Shows(s, Before(s, raw),
                username(Before(s, raw), accounts, raw, random_bytes))

AskPassword(s, raw) ==
    /\ Enters(s, raw, "ask_password")
    /\ Shows(s, Before(s, raw),
             ask_password(Before(s, raw), accounts, bans, Address(s), raw))

CreateAccount(s, raw) ==
    /\ Enters(s, raw, "create_account")
    /\ Shows(s, Before(s, raw), create_account(Before(s, raw), accounts))

CreateUsername(s, raw) ==
    /\ Enters(s, raw, "create_username")
    /\ Shows(s, Before(s, raw), create_username(Before(s, raw), accounts, raw))

CreatePassword(s, raw) ==
    /\ Enters(s, raw, "create_password")
    /\ \E outcome \in CreateOutcomes(accounts, sess[s].accountname) :
          Shows(s, Before(s, raw),
                create_password(Before(s, raw), accounts, raw, outcome))

CreateEmailAddress(s, raw) ==
    /\ Enters(s, raw, "create_email_address")
    /\ \E random_bytes \in urandom(4) :
          Shows(s, Before(s, raw),
                create_email_address(Before(s, raw), accounts, raw, random_bytes))

ValidateAccount(s, raw) ==
    /\ Enters(s, raw, "validate_account")
    /\ Shows(s, Before(s, raw), validate_account(Before(s, raw), accounts, raw))

Quit(s, raw) ==
    /\ Enters(s, raw, "quit")
    /\ Shows(s, Before(s, raw), quit(Before(s, raw), accounts))

CheckTemporaryPassword(s, raw) ==
    /\ Enters(s, raw, "check_temporary_password")
    /\ Shows(s, Before(s, raw),
             check_temporary_password(Before(s, raw), accounts, raw))

ChangeTemporaryPassword(s, raw) ==
    /\ Enters(s, raw, "change_temporary_password")
    /\ Shows(s, Before(s, raw),
             change_temporary_password(Before(s, raw), accounts, raw))

Init ==
    /\ sess = [s \in Sessions |-> NoSession]
    /\ accounts \in InitialAccounts
    /\ bans \in InitialBans
    /\ sent = {}
    /\ issued = [k \in DOMAIN accounts |-> 0]
    /\ gen = NoCall

Next ==
    \E s \in Sessions :
        \/ Connect(s)
        \/ \E raw \in Inputs :
              \/ Start(s, raw)
              \/ Username(s, raw)
              \/ AskPassword(s, raw)
              \/ CreateAccount(s, raw)
              \/ CreateUsername(s, raw)
              \/ CreatePassword(s, raw)
              \/ CreateEmailAddress(s, raw)
              \/ ValidateAccount(s, raw)
              \/ Quit(s, raw)
              \/ CheckTemporaryPassword(s, raw)
              \/ ChangeTemporaryPassword(s, raw)

Spec == Init /\ [][Next]_vars

-----------------------------------------------------------------------------
(* Spec is the whole menu.  The specifications below are the same actions *)
(* under users who type fewer lines, which keeps the state graph small     *)
(* enough to search in full.                                               *)
(*                                                                         *)
(* The menu for existing accounts: the users type no "nouveau", so the     *)
(* nodes that create an account are never entered.                         *)

LoginLines ==
    { in_Bob, in_ab2, in_quit, in_r, in_secret1, in_hunter22, in_email }

LoginInputs == LoginLines \cup Secrets

NextLogin ==
    \E s \in Sessions :
        \/ Connect(s)
        \/ \E raw \in LoginInputs :
              \/ Start(s, raw)
              \/ Username(s, raw)
              \/ AskPassword(s, raw)
              \/ CreateEmailAddress(s, raw)
              \/ ValidateAccount(s, raw)
              \/ Quit(s, raw)
              \/ CheckTemporaryPassword(s, raw)
              \/ ChangeTemporaryPassword(s, raw)

SpecLogin == Init /\ [][NextLogin]_vars

-----------------------------------------------------------------------------
(* The menu for new accounts, on one session, beside one valid account    *)
(* "bob".                                                                  *)

CreateLines ==
    { in_Bob, in_abc, in_ab, in_ab2, in_nouveau, in_quit, in_r,
      in_secret1, in_email }

CreateInputs == CreateLines \cup Secrets

CreateSessions == {1}

InitCreate ==
    /\ sess = [s \in Sessions |-> NoSession]
    /\ accounts = (in_bob :> [password |-> in_secret1, email |-> bob_email,
                              valid |-> TRUE, sent_validation |-> FALSE,
                              validation_code |-> NoCode,
                              recorded_email |-> bob_email])
    /\ bans \in InitialBans
    /\ sent = {}
    /\ issued = [k \in DOMAIN accounts |-> 0]
    /\ gen = NoCall

NextCreate ==
    \E s \in CreateSessions :
        \/ Connect(s)
        \/ \E raw \in CreateInputs :
              \/ Start(s, raw)
              \/ Username(s, raw)
              \/ AskPassword(s, raw)
              \/ CreateAccount(s, raw)
              \/ CreateUsername(s, raw)
              \/ CreatePassword(s, raw)
              \/ CreateEmailAddress(s, raw)
              \/ ValidateAccount(s, raw)
              \/ Quit(s, raw)

SpecCreate == InitCreate /\ [][NextCreate]_vars

-----------------------------------------------------------------------------
(* Properties of the menu for existing accounts, checked under SpecLogin  *)

\* What ask_password returns for the line raw typed by session s.
AskPasswordResult(s, raw) ==
    ask_password(Before(s, raw), accounts, bans, Address(s), raw)

\* The account name or the address matches an entry of the ban list.
BanMatches(account_name, address) ==
    \E i \in 1..Len(bans) :
        \/ bans[i][1] = lower(account_name)
        \/ bans[i][3] # <<>> /\ ipregex_match(bans[i][3], address)

RetryPasswordOptions ==
    { <<"r", "start", "echo_on">>, <<"_default", "ask_password", "none">> }

\* C1: for a valid account, a wrong password at ask_password is counted: the
\* first and the second failure of the session show the error and stay on
\* ask_password, the third disconnects with no options left, so that no
\* fourth password prompt exists; the count of failures never passes 2 while
\* the menu runs, and a disconnected session has no options.
C1_ThirdWrongPasswordDisconnects ==
    /\ \A s \in Sessions :
          /\ sess[s].password_attempts \in 0..2
          /\ sess[s].status = "disconnected" => sess[s].options = {}
    /\ \A s \in Sessions, raw \in LoginInputs :
          ( /\ Enters(s, raw, "ask_password")
            /\ accounts[sess[s].account].valid
            /\ accounts[sess[s].account].password # strip(raw) )
          => LET r == AskPasswordResult(s, raw) IN
             IF sess[s].password_attempts < 2
             THEN /\ r.st.status = "menu"
                  /\ r.st.text = "invalid_password"
                  /\ r.st.options = RetryPasswordOptions
                  /\ r.st.password_attempts = sess[s].password_attempts + 1
             ELSE /\ r.st.status = "disconnected"
                  /\ r.st.farewell = "too_many_attempts"
                  /\ r.st.text = ""
                  /\ r.st.options = {}
                  /\ r.st.player = NoAccount

\* C1 witness: a session was disconnected by its third wrong password for a
\* valid account.
C1_Witness ==
    \E s \in Sessions :
        /\ sess[s].node = "ask_password"
        /\ sess[s].status = "disconnected"
        /\ sess[s].farewell = "too_many_attempts"
        /\ sess[s].password_attempts = 2
        /\ accounts[sess[s].account].valid

\* C2: a wrong password at ask_password has the same outcome whatever the
\* ban list and the address of the session are, and that outcome is never
\* the ban disconnect.
C2_WrongPasswordHidesBan ==
    \A s \in Sessions, raw \in LoginInputs :
        ( /\ Enters(s, raw, "ask_password")
          /\ accounts[sess[s].account].password # strip(raw) )
        => /\ AskPasswordResult(s, raw).st.farewell # "banned"
           /\ \A banlist \in InitialBans, t \in Sessions :
                 ask_password(Before(s, raw), accounts, banlist, Address(t), raw)
                 = ask_password(Before(s, raw), accounts, <<>>, Address(t), raw)

\* C2 witness: a banned session or account got the wrong-password prompt.
C2_Witness ==
    \E s \in Sessions :
        /\ sess[s].node = "ask_password"
        /\ sess[s].text = "invalid_password"
        /\ BanMatches(sess[s].account, Address(s))

\* C3: a right password at ask_password, for a banned name or from a banned
\* address, disconnects with the ban message and logs nobody in, whatever
\* the e-mail and the validation code of the account are; no session is
\* logged in by ask_password under a ban.
C3_BanDisconnects ==
    /\ \A s \in Sessions, raw \in LoginInputs :
          ( /\ Enters(s, raw, "ask_password")
            /\ accounts[sess[s].account].password = strip(raw)
            /\ BanMatches(sess[s].account, Address(s)) )
          => LET r == AskPasswordResult(s, raw) IN
             /\ r.st.status = "disconnected"
             /\ r.st.farewell = "banned"
             /\ r.st.text = ""
             /\ r.st.options = {}
             /\ r.st.player = NoAccount
    /\ \A s \in Sessions :
          (sess[s].status = "loggedin" /\ sess[s].node = "ask_password")
          => ~BanMatches(sess[s].player, Address(s))

\* C3 witness: a session was disconnected by an address ban although the
\* account has no e-mail on file.
C3_Witness ==
    \E s \in Sessions :
        /\ sess[s].node = "ask_password"
        /\ sess[s].status = "disconnected"
        /\ sess[s].farewell = "banned"
        /\ accounts[sess[s].account].email = <<>>
        /\ \A i \in 1..Len(bans) : bans[i][1] # lower(sess[s].account)

\* C4: when ask_password logs a session in, the account is valid, has an
\* e-mail on file and no validation code at that moment, whatever the
\* account's fields were at the start and whatever the other session did;
\* and only ask_password, validate_account and change_temporary_password
\* log a session in.
C4_NormalLoginOnlyIfValid ==
    /\ \A s \in Sessions, raw \in LoginInputs :
          ( /\ Enters(s, raw, "ask_password")
            /\ AskPasswordResult(s, raw).st.status = "loggedin" )
          => /\ accounts[sess[s].account].valid
             /\ accounts[sess[s].account].email # <<>>
             /\ accounts[sess[s].account].validation_code = NoCode
             /\ AskPasswordResult(s, raw).st.player = sess[s].account
    /\ \A s \in Sessions :
          sess[s].status = "loggedin"
          => /\ sess[s].node \in {"ask_password", "validate_account",
                                  "change_temporary_password"}
             /\ sess[s].player = sess[s].account
             /\ accounts[sess[s].player].valid

\* C4 witness: ask_password logged a session in to an account that was not
\* valid at the start: the other session validated it in between.
C4_Witness ==
    \E s \in Sessions :
        /\ sess[s].status = "loggedin"
        /\ sess[s].node = "ask_password"
        /\ accounts[sess[s].player].recorded_email # <<>>

\* What username returns for the line raw typed by session s.
UsernameResult(s, raw, random_bytes) ==
    username(Before(s, raw), accounts, raw, random_bytes)

\* The account whose name is the stripped line, whatever the case of its letters.
Resolves(raw, k) == k \in DOMAIN accounts /\ lower(k) = lower(strip(raw))

Rotated(r, k, random_bytes) ==
    LET password == r.accounts[k].password IN
    /\ Len(password) = 6
    /\ \A i \in 1..6 : password[i] \in Range(ascii_lowercase) \cup Range(digits)
    /\ password = generate_password(6, ascii_lowercase \o digits, random_bytes)
    /\ r.accounts = [accounts EXCEPT ![k].password = password,
                                     ![k].sent_validation = TRUE]
    /\ r.mail = { [to |-> accounts[k].email, account |-> k,
                   kind |-> "temp_password", secret |-> password] }
    /\ r.st.account = k
    /\ r.st.status = "menu"
    /\ r.st.options = { <<"_default", "check_temporary_password", "none">> }

\* C6, as claimed: username rotates the password of an account that has no
\* e-mail on file, or that is not valid and has neither sent_validation nor
\* a validation code.
C6_Original ==
    \A s \in Sessions, raw \in LoginInputs, random_bytes \in urandom(6) :
        \A k \in DOMAIN accounts :
            ( /\ Enters(s, raw, "username")
              /\ Resolves(raw, k)
              /\ \/ accounts[k].email = <<>>
                 \/ /\ ~accounts[k].valid
                    /\ ~accounts[k].sent_validation
                    /\ accounts[k].validation_code = NoCode )
            => Rotated(UsernameResult(s, raw, random_bytes), k, random_bytes)

\* C6, amended: username rotates the password of an account that has an
\* e-mail on file and is not valid, with neither sent_validation nor a
\* validation code: it generates a 6-character temporary password, stores it
\* as the account's password, sets sent_validation, e-mails it to the
\* account's address and goes on to check_temporary_password.
C6_RecoveryNeedsEmail ==
    \A s \in Sessions, raw \in LoginInputs, random_bytes \in urandom(6) :
        \A k \in DOMAIN accounts :
            ( /\ Enters(s, raw, "username")
              /\ Resolves(raw, k)
              /\ accounts[k].email # <<>>
              /\ ~accounts[k].valid
              /\ ~accounts[k].sent_validation
              /\ accounts[k].validation_code = NoCode )
            => Rotated(UsernameResult(s, raw, random_bytes), k, random_bytes)

\* C6 witness: username has just e-mailed a temporary password, which is
\* now the account's password.
C6_Witness ==
    \E s \in Sessions :
        /\ sess[s].node = "username"
        /\ sess[s].text = "temp_password_sent"
        /\ accounts[sess[s].account].sent_validation
        /\ \E m \in sent : /\ m.kind = "temp_password"
                           /\ m.account = sess[s].account
                           /\ m.secret = accounts[sess[s].account].password
                           /\ m.to = accounts[sess[s].account].email

\* C7: for an account that is not valid and has sent_validation set,
\* username goes on to check_temporary_password without changing any
\* account and without an e-mail; and no account is ever sent more than one
\* temporary password.
C7_TemporaryPasswordSentOnce ==
    /\ \A s \in Sessions, raw \in LoginInputs, random_bytes \in urandom(6) :
          \A k \in DOMAIN accounts :
              ( /\ Enters(s, raw, "username")
                /\ Resolves(raw, k)
                /\ ~accounts[k].valid
                /\ accounts[k].sent_validation )
              => LET r == UsernameResult(s, raw, random_bytes) IN
                 /\ r.accounts = accounts
                 /\ r.mail = {}
                 /\ r.st.account = k
                 /\ r.st.status = "menu"
                 /\ r.st.options =
                       { <<"_default", "check_temporary_password", "none">> }
    /\ \A k \in DOMAIN accounts : issued[k] <= 1

\* C7 witness: a session is asked for the temporary password that an
\* earlier username step had sent, and nothing was sent again.
C7_Witness ==
    \E s \in Sessions :
        /\ sess[s].node = "username"
        /\ sess[s].text = "ask_temp_password"
        /\ issued[sess[s].account] = 1
        /\ sent = {}

\* C8: for a valid account, username stores the account in the session,
\* turns echo off, and leaves the options r -> start (turning echo on) and
\* default -> ask_password, so that r goes to start with echo on and any
\* other line goes to ask_password.
C8_ValidAccountAsksPassword ==
    \A s \in Sessions, raw \in LoginInputs, random_bytes \in urandom(6) :
        \A k \in DOMAIN accounts :
            ( /\ Enters(s, raw, "username")
              /\ Resolves(raw, k)
              /\ accounts[k].valid )
            => LET r == UsernameResult(s, raw, random_bytes) IN
               /\ r.st.account = k
               /\ r.st.echo = FALSE
               /\ r.st.status = "menu"
               /\ r.accounts = accounts
               /\ r.mail = {}
               /\ \A next \in LoginInputs :
                     LET o == option_for(r.st.options, next) IN
                     IF lower(strip(next)) = <<"r">>
                     THEN o[2] = "start" /\ o[3] = "echo_on"
                     ELSE o[2] = "ask_password" /\ o[3] = "none"

\* C8 witness: a session holds a valid account and waits for its password
\* with echo off.
C8_Witness ==
    \E s \in Sessions :
        /\ sess[s].node = "username"
        /\ sess[s].text = "ask_password"
        /\ sess[s].echo = FALSE
        /\ accounts[sess[s].account].valid

\* C9: a right password at ask_password without a ban has one outcome: no
\* e-mail on file -> create_email_address; else a validation code ->
\* validate_account; else echo on and the session is logged in. The first
\* two log nobody in.
C9_PassedPasswordBranches ==
    \A s \in Sessions, raw \in LoginInputs :
        ( /\ Enters(s, raw, "ask_password")
          /\ accounts[sess[s].account].password = strip(raw)
          /\ ~BanMatches(sess[s].account, Address(s)) )
        => LET r == AskPasswordResult(s, raw)
               acc == accounts[sess[s].account]
           IN  /\ r.accounts = accounts
               /\ r.mail = {}
               /\ IF acc.email = <<>>
                  THEN /\ r.st.status = "menu"
                       /\ r.st.player = NoAccount
                       /\ r.st.options =
                             { <<"_default", "create_email_address", "none">> }
                  ELSE IF acc.validation_code # NoCode
                  THEN /\ r.st.status = "menu"
                       /\ r.st.player = NoAccount
                       /\ r.st.options =
                             { <<"_default", "validate_account", "none">> }
                  ELSE /\ r.st.status = "loggedin"
                       /\ r.st.player = sess[s].account
                       /\ r.st.echo = TRUE
                       /\ r.st.options = {}

\* C9 witness: a right password for an account with no e-mail and a
\* validation code led to the e-mail prompt.
C9_Witness ==
    \E s \in Sessions :
        /\ sess[s].node = "ask_password"
        /\ sess[s].text = "no_email"
        /\ sess[s].status = "menu"
        /\ accounts[sess[s].account].validation_code # NoCode

-----------------------------------------------------------------------------
(* Properties of the menu for new accounts, checked under SpecCreate      *)

Letters == Range(ascii_lowercase) \cup Range(ascii_uppercase)

\* What create_username returns for the line raw typed by session s.
CreateUsernameResult(s, raw) == create_username(Before(s, raw), accounts, raw)

\* create_username refused the name: same node or start next, nothing stashed.
NameRejected(s, raw) ==
    LET r == CreateUsernameResult(s, raw) IN
    /\ r.st.status = "menu"
    /\ r.st.options = { <<"r", "start", "none">>,
                        <<"_default", "create_username", "none">> }
    /\ r.st.accountname = sess[s].accountname
    /\ r.st.echo = Before(s, raw).echo
    /\ r.accounts = accounts

\* create_username took the name: stashed, echo off, create_password next.
NameAccepted(s, raw) ==
    LET r == CreateUsernameResult(s, raw) IN
    /\ r.st.status = "menu"
    /\ r.st.options = { <<"_default", "create_password", "none">> }
    /\ r.st.accountname = strip(raw)
    /\ r.st.echo = FALSE
    /\ r.accounts = accounts

\* C10: create_username refuses a name that exists (whatever the case) and
\* a name that is not made of at least 3 letters, such as "ab" and "ab2",
\* staying on create_username or going to start on r, with nothing stashed
\* and echo untouched; it takes an unused name of letters such as "abc",
\* stashes it, turns echo off and goes on to create_password.
C10_CreateUsernameChecksName ==
    \A s \in CreateSessions, raw \in CreateInputs :
        Enters(s, raw, "create_username")
        => LET name == strip(raw)
               exists == \E k \in DOMAIN accounts : lower(k) = lower(name)
               wellformed == /\ Len(name) >= 3
                             /\ \A i \in 1..Len(name) : name[i] \in Letters
           IN  /\ IF exists \/ ~wellformed
                  THEN NameRejected(s, raw)
                  ELSE NameAccepted(s, raw)
               /\ raw \in {in_ab, in_ab2, in_Bob} => NameRejected(s, raw)
               /\ (raw = in_abc /\ in_abc \notin DOMAIN accounts)
                  => NameAccepted(s, raw)

\* C10 witness: the unused name "abc" was taken and stashed, echo is off.
C10_Witness ==
    \E s \in CreateSessions :
        /\ sess[s].node = "create_username"
        /\ sess[s].text = "enter_new_password"
        /\ sess[s].accountname = in_abc
        /\ sess[s].echo = FALSE
        /\ in_abc \notin DOMAIN accounts

-----------------------------------------------------------------------------
(* create_password *)

in_passwd  == <<"p","a","s","s","w","d">>
in_passw   == <<"p","a","s","s","w">>
in_padded  == <<" ","p","a","s","s","w"," ">>
in_padded6 == <<" ","p","a","s","s","w","d","\t">>

\* Password candidates around the minimum length, with and without padding.
PasswordCandidates == { <<>>, in_passw, in_passwd, in_padded, in_padded6 }

\* What create_password returns for the line raw typed by session s when the
\* directory answers with outcome.
CreatePasswordResult(s, raw, outcome) ==
    create_password(Before(s, raw), accounts, raw, outcome)

AllCreateOutcomes == {"created", "failed", "raised", "raised_after"}

\* C11: create_password refuses a candidate whose stripped length is below
\* 6 without asking the directory: whatever the directory would answer, the
\* account table and the session's account are unchanged and the session
\* stays on create_password (r goes to start). For a candidate of 6 or more
\* the directory is asked, and when it creates the account, the account is
\* made under the stashed name with the stripped candidate as its password
\* and no e-mail. No account of the table has a password shorter than 6.
C11_CreatePasswordChecksLength ==
    /\ \A s \in CreateSessions, raw \in CreateInputs \cup PasswordCandidates :
          Enters(s, raw, "create_password")
          => IF Len(strip(raw)) < 6
             THEN \A outcome \in AllCreateOutcomes :
                     LET r == CreatePasswordResult(s, raw, outcome) IN
                     /\ r.accounts = accounts
                     /\ r.mail = {}
                     /\ r.st.status = "menu"
                     /\ r.st.text = "password_too_short"
                     /\ r.st.account = sess[s].account
                     /\ r.st.accountname = sess[s].accountname
                     /\ r.st.node = "create_password"
                     /\ r.st.options = { <<"r", "start", "echo_on">>,
                                         <<"_default", "create_password", "none">> }
             ELSE \A outcome \in CreateOutcomes(accounts, sess[s].accountname) :
                     LET r == CreatePasswordResult(s, raw, outcome) IN
                     /\ r.st.text # "password_too_short"
                     /\ outcome = "created"
                        => /\ DOMAIN r.accounts
                              = DOMAIN accounts \cup {sess[s].accountname}
                           /\ r.accounts[sess[s].accountname].password = strip(raw)
                           /\ r.accounts[sess[s].accountname].email = <<>>
                           /\ \A k \in DOMAIN accounts : r.accounts[k] = accounts[k]
                     /\ \A k \in DOMAIN r.accounts \ DOMAIN accounts :
                           /\ k = sess[s].accountname
                           /\ Len(r.accounts[k].password) >= 6
    /\ \A k \in DOMAIN accounts : Len(accounts[k].password) >= 6

\* C11 witness: the account "abc" was created by create_password with the
\* password typed, and the session is asked for an e-mail address.
C11_Witness ==
    \E s \in CreateSessions :
        /\ sess[s].node = "create_password"
        /\ sess[s].text = "account_created"
        /\ sess[s].accountname = in_abc
        /\ in_abc \in DOMAIN accounts
        /\ accounts[in_abc].password = in_secret1
        /\ accounts[in_abc].email = <<>>

\* The session's latest node was create_password and the directory failed
\* there: an exception reached the node, or _create_account returned False.
DirectoryFailed(s) ==
    /\ sess[s].node = "create_password"
    /\ sess[s].msgs \in { <<"apology">>, <<"create_error">> }

\* C12, as claimed: after a failure of the directory in create_password the
\* user has received the apology only, and the session is in a dead end: no
\* line it types is routed to any node.
C12_Original ==
    \A s \in CreateSessions :
        DirectoryFailed(s)
        => /\ sess[s].msgs = <<"apology">>
           /\ \A raw \in CreateInputs :
                 option_for(sess[s].options, raw) = NoOption

\* C12, amended: when the creation raises in create_password, the user gets
\* the apology and an empty text, the session's account and echo are as
\* they were, and the session stays on create_password with the options the
\* node starts with: r goes to start (turning echo on), any other line goes
\* to create_password again.
C12_RaisedCreationRetries ==
    \A s \in CreateSessions, raw \in CreateInputs \cup PasswordCandidates :
        ( /\ Enters(s, raw, "create_password")
          /\ Len(strip(raw)) >= 6 )
        => \A outcome \in {"raised", "raised_after"} :
              LET r == CreatePasswordResult(s, raw, outcome) IN
              /\ r.st.msgs = <<"apology">>
              /\ r.st.text = ""
              /\ r.st.node = "create_password"
              /\ r.st.status = "menu"
              /\ r.st.account = sess[s].account
              /\ r.st.echo = Before(s, raw).echo
              /\ r.mail = {}
              /\ \A next \in CreateInputs :
                    LET o == option_for(r.st.options, next) IN
                    IF lower(strip(next)) = <<"r">>
                    THEN o[2] = "start" /\ o[3] = "echo_on"
                    ELSE o[2] = "create_password" /\ o[3] = "none"

\* C12 witness: the creation raised, the session got the apology and can
\* still type r or another password.
C12_Witness ==
    \E s \in CreateSessions :
        /\ sess[s].node = "create_password"
        /\ sess[s].msgs = <<"apology">>
        /\ sess[s].status = "menu"
        /\ Enters(s, in_r, "start")
        /\ Enters(s, in_secret1, "create_password")

\* C13, as claimed: a session that create_password sends on to
\* create_email_address holds the account the directory has just created
\* under the stashed name, with no e-mail, and echo is on; and whenever a
\* line is routed to create_email_address, the session's account is an
\* account of the table.
C13_EmailStepHoldsCreatedAccount ==
    /\ \A s \in CreateSessions :
          ( /\ sess[s].node = "create_password"
            /\ sess[s].text = "account_created" )
          => /\ sess[s].account = sess[s].accountname
             /\ sess[s].account \in DOMAIN accounts
             /\ accounts[sess[s].account].email = <<>>
             /\ sess[s].echo = TRUE
    /\ \A s \in CreateSessions, raw \in CreateInputs :
          Enters(s, raw, "create_email_address")
          => sess[s].account \in DOMAIN accounts

-----------------------------------------------------------------------------
(* create_email_address and validate_account *)

\* What create_email_address returns for the line raw typed by session s.
CreateEmailAddressResult(s, raw, random_bytes) ==
    create_email_address(Before(s, raw), accounts, raw, random_bytes)

\* create_email_address refused the address: same node, nothing stored or sent.
AddressRefused(s, r) ==
    /\ ~r.raised
    /\ r.accounts = accounts
    /\ r.mail = {}
    /\ r.st.status = "menu"
    /\ r.st.node = "create_email_address"
    /\ r.st.options = { <<"_default", "create_email_address", "none">> }

\* create_email_address took the address: it is stored on the session's
\* account with a code of 4 digits, the one e-mail sent goes to the address
\* and carries that code, and validate_account is next.
AddressTaken(s, r, address) ==
    /\ ~r.raised
    /\ sess[s].account \in DOMAIN accounts
    /\ LET code == r.accounts[sess[s].account].validation_code IN
       /\ Len(code) = 4
       /\ \A i \in 1..4 : code[i] \in Range(digits)
       /\ r.accounts = [accounts EXCEPT ![sess[s].account].email = address,
                                        ![sess[s].account].validation_code = code]
       /\ r.mail = { [to |-> address, account |-> sess[s].account,
                      kind |-> "validation_code", secret |-> code] }
    /\ r.st.status = "menu"
    /\ r.st.options = { <<"_default", "validate_account", "none">> }

\* C14, as claimed: create_email_address refuses an address that is not
\* valid, staying on the node and changing neither the e-mail nor the code
\* and sending nothing; it takes a valid one, stores it, stores a code of 4
\* digits, sends that code to that address and goes on to validate_account.
C14_EmailAddressStep ==
    \A s \in CreateSessions, raw \in CreateInputs, random_bytes \in urandom(4) :
        Enters(s, raw, "create_email_address")
        => LET r == CreateEmailAddressResult(s, raw, random_bytes) IN
           IF validate_email(strip(raw))
           THEN AddressTaken(s, r, strip(raw))
           ELSE AddressRefused(s, r)

\* What validate_account returns for the line raw typed by session s.
ValidateAccountResult(s, raw) == validate_account(Before(s, raw), accounts, raw)

\* A validation code with blanks around it, as a user may paste it.
Padded(code) == <<" ">> \o code \o <<"\t">>

\* The lines tried at validate_account: the lines the users type, and the
\* codes on file with blanks around them.
CodeInputs ==
    LoginInputs
    \cup { Padded(accounts[k].validation_code) :
             k \in { a \in DOMAIN accounts : accounts[a].validation_code # NoCode } }

\* C15: a line at validate_account that is not the code on file leaves the
\* session on validate_account, connected, with the same count of password
\* attempts, and changes no account and sends nothing, however many
\* attempts were counted before: the step can be repeated without end.
C15_WrongCodeNeverCounted ==
    \A s \in Sessions, raw \in CodeInputs :
        ( /\ Enters(s, raw, "validate_account")
          /\ accounts[sess[s].account].validation_code # strip(raw) )
        => LET r == ValidateAccountResult(s, raw) IN
           /\ ~r.raised
           /\ r.accounts = accounts
           /\ r.mail = {}
           /\ r.st.status = "menu"
           /\ r.st.node = "validate_account"
           /\ r.st.options = { <<"_default", "validate_account", "none">> }
           /\ r.st.password_attempts = sess[s].password_attempts
           /\ r.st.account = sess[s].account
           /\ r.st.player = NoAccount

\* C15 witness: a session that had two wrong passwords counted typed a
\* wrong code and is still connected, on validate_account.
C15_Witness ==
    \E s \in Sessions :
        /\ sess[s].node = "validate_account"
        /\ sess[s].text = "code_mismatch"
        /\ sess[s].status = "menu"
        /\ sess[s].password_attempts = 2
        /\ accounts[sess[s].account].validation_code # NoCode

\* C16: validate_account logs the session in exactly when the stripped line
\* is the code on file; then the code is removed, the account is valid, its
\* e-mail is recorded and the session is logged in to that account, and no
\* other account changes.
C16_CodeMatchLogsIn ==
    \A s \in Sessions, raw \in CodeInputs :
        Enters(s, raw, "validate_account")
        => LET r == ValidateAccountResult(s, raw)
               k == sess[s].account
           IN  /\ ~r.raised
               /\ r.st.status = "loggedin"
                  <=> accounts[k].validation_code = strip(raw)
               /\ r.st.status = "loggedin"
                  => /\ r.st.player = k
                     /\ r.st.options = {}
                     /\ r.accounts[k].validation_code = NoCode
                     /\ r.accounts[k].valid
                     /\ r.accounts[k].recorded_email = accounts[k].email
                     /\ r.accounts[k].email = accounts[k].email
                     /\ r.accounts[k].password = accounts[k].password
                     /\ \A j \in DOMAIN accounts \ {k} : r.accounts[j] = accounts[j]
                     /\ DOMAIN r.accounts = DOMAIN accounts

\* C16 witness: a session typed the code that create_email_address had
\* sent and is logged in to the account, now valid and without a code.
C16_Witness ==
    \E s \in Sessions :
        /\ sess[s].node = "validate_account"
        /\ sess[s].status = "loggedin"
        /\ sess[s].player = sess[s].account
        /\ accounts[sess[s].player].valid
        /\ accounts[sess[s].player].validation_code = NoCode
        /\ accounts[sess[s].player].recorded_email = in_email

-----------------------------------------------------------------------------
(* check_temporary_password and change_temporary_password *)

\* What check_temporary_password returns for the line raw typed by session s.
CheckTemporaryPasswordResult(s, raw) ==
    check_temporary_password(Before(s, raw), accounts, raw)

\* C17: at check_temporary_password a line that is not the account's
\* password is counted: while the count stays at 2 or less the session
\* stays on check_temporary_password, and the failure that takes it past 2
\* disconnects the session. The account's password goes on to
\* change_temporary_password, with the session not logged in, the count as it
\* was and no account changed, so the account is not made valid there.
C17_TemporaryPasswordChecked ==
    \A s \in Sessions, raw \in LoginInputs :
        Enters(s, raw, "check_temporary_password")
        => LET r == CheckTemporaryPasswordResult(s, raw)
               k == sess[s].account
           IN  /\ ~r.raised
               /\ r.accounts = accounts
               /\ r.mail = {}
               /\ r.st.player = NoAccount
               /\ r.st.account = k
               /\ IF accounts[k].password # strip(raw)
                  THEN IF sess[s].password_attempts + 1 > 2
                       THEN /\ r.st.status = "disconnected"
                            /\ r.st.farewell = "too_many_attempts"
                            /\ r.st.options = {}
                       ELSE /\ r.st.status = "menu"
                            /\ r.st.password_attempts
                                  = sess[s].password_attempts + 1
                            /\ r.st.node = "check_temporary_password"
                            /\ r.st.options =
                                  { <<"_default", "check_temporary_password", "none">> }
                  ELSE /\ r.st.status = "menu"
                       /\ r.st.password_attempts = sess[s].password_attempts
                       /\ r.st.options =
                             { <<"_default", "change_temporary_password", "none">> }

\* C17 witness: after two wrong lines a session typed the temporary
\* password that username had sent; it is asked for a new password, is not
\* logged in, and the account is not valid.
C17_Witness ==
    \E s \in Sessions :
        /\ sess[s].node = "check_temporary_password"
        /\ sess[s].text = "temp_password_valid"
        /\ sess[s].status = "menu"
        /\ sess[s].password_attempts = 2
        /\ sess[s].player = NoAccount
        /\ ~accounts[sess[s].account].valid
        /\ issued[sess[s].account] = 1

\* What change_temporary_password returns for the line raw typed by session s.
ChangeTemporaryPasswordResult(s, raw) ==
    change_temporary_password(Before(s, raw), accounts, raw)

\* The accounts whose valid flag differs between two account tables.
ValidChanged(before, after) ==
    { k \in DOMAIN before : after[k].valid # before[k].valid }

\* C18: at change_temporary_password a candidate the password policy
\* refuses changes no account and leaves the session on the node; one it
\* accepts becomes the account's password, the account is made valid, echo
\* is turned on and the session is logged in to the account. Of the nodes of
\* the recovery (username, check_temporary_password,
\* change_temporary_password) only the last changes a valid flag, and only
\* together with storing the accepted password.
C18_PermanentPasswordMakesValid ==
    /\ \A s \in Sessions, raw \in LoginInputs :
          Enters(s, raw, "change_temporary_password")
          => LET r == ChangeTemporaryPasswordResult(s, raw)
                 k == sess[s].account
             IN  /\ ~r.raised
                 /\ r.mail = {}
                 /\ IF validate_password(strip(raw))
                    THEN /\ r.accounts = [accounts EXCEPT ![k].password = strip(raw),
                                                          ![k].valid = TRUE]
                         /\ r.st.echo = TRUE
                         /\ r.st.status = "loggedin"
                         /\ r.st.player = k
                         /\ r.st.options = {}
                    ELSE /\ r.accounts = accounts
                         /\ r.st.status = "menu"
                         /\ r.st.player = NoAccount
                         /\ r.st.node = "change_temporary_password"
                         /\ r.st.options =
                               { <<"_default", "change_temporary_password", "none">> }
    /\ \A s \in Sessions, raw \in LoginInputs :
          /\ Enters(s, raw, "username")
             => \A random_bytes \in urandom(6) :
                   ValidChanged(accounts,
                                UsernameResult(s, raw, random_bytes).accounts) = {}
          /\ Enters(s, raw, "check_temporary_password")
             => ValidChanged(accounts,
                             CheckTemporaryPasswordResult(s, raw).accounts) = {}

\* C18 witness: a session set a permanent password of 8 characters after
\* the temporary one and is logged in to the account, now valid.
C18_Witness ==
    \E s \in Sessions :
        /\ sess[s].node = "change_temporary_password"
        /\ sess[s].status = "loggedin"
        /\ sess[s].echo = TRUE
        /\ sess[s].player = sess[s].account
        /\ accounts[sess[s].player].valid
        /\ accounts[sess[s].player].password = in_hunter22
        /\ issued[sess[s].player] = 1

-----------------------------------------------------------------------------
(* start and the ends of the menu *)

in_NOUVEAU == <<" ","N","O","U","V","E","A","U"," ">>

\* The lines tried at start: the lines the users type and NOUVEAU in
\* capitals between blanks.
StartInputs == CreateInputs \cup {in_NOUVEAU}

Ended(s) == sess[s].status \in {"disconnected", "loggedin"}

\* C20: a session that a node disconnected (too many wrong passwords at
\* ask_password or check_temporary_password, a ban, quit) or logged in has
\* an empty text and no options, so that no line it sends selects a node;
\* every such end comes from one of the nodes that disconnect or log in;
\* and quit changes no account and nothing of the session but its
\* connection, sending no e-mail.
C20_EndsAreFinal ==
    /\ \A s \in Sessions :
          Ended(s)
          => /\ sess[s].options = {}
             /\ sess[s].text = ""
             /\ \A raw \in LoginInputs :
                   option_for(sess[s].options, raw) = NoOption
             /\ sess[s].node \in
                   IF sess[s].status = "loggedin"
                   THEN {"ask_password", "validate_account",
                         "change_temporary_password"}
                   ELSE {"ask_password", "check_temporary_password", "quit"}
    /\ \A s \in Sessions, raw \in LoginInputs :
          Enters(s, raw, "quit")
          => LET r == quit(Before(s, raw), accounts) IN
             /\ ~r.raised
             /\ r.accounts = accounts
             /\ r.mail = {}
             /\ r.st = [Before(s, raw) EXCEPT !.status = "disconnected",
                                              !.farewell = "goodbye",
                                              !.node = "quit",
                                              !.text = "",
                                              !.options = {}]

\* C20 witness: one session has quit and the other is logged in; neither
\* has an option left.
C20_Witness ==
    \E s \in Sessions, t \in Sessions :
        /\ sess[s].status = "disconnected"
        /\ sess[s].node = "quit"
        /\ sess[s].farewell = "goodbye"
        /\ sess[t].status = "loggedin"
        /\ sess[s].options = {}
        /\ sess[t].options = {}

-----------------------------------------------------------------------------
(* The password generator on its own: _generate_password(length, charset) *)
(* called with the two profiles of the menu and with other lengths and     *)
(* charsets, step by step: the call, os.urandom, the indices and the join. *)

MaxLength == 3

Bytes == 0..255

\* The charsets tried: the two of the menu, and charsets of 1, 3, 4 and 26
\* characters.
GenCharsets ==
    { digits, temp_password_charset, ascii_lowercase,
      <<"x">>, <<"a","b","c">>, <<"a","b","c","d">> }

\* The calls tried: the two of the menu (menu.py:96 and :454), and every
\* charset with every length up to MaxLength.
GenCalls ==
    { <<6, temp_password_charset>>, <<4, digits>> }
    \cup { <<n, cs>> : n \in 0..MaxLength, cs \in GenCharsets }

\* The outcomes of os.urandom(length) tried here: one per seed in 0..255,
\* byte i being seed + 37 * (i - 1) modulo 256, so that every byte value
\* occurs at every position.
urandom_every_byte(length) ==
    { [i \in 1..length |-> (seed + 37 * (i - 1)) % 256] : seed \in Bytes }

\* _generate_password is called.
GenCall(length, charset) ==
    /\ gen.pc = "idle"
    /\ gen' = [NoCall EXCEPT !.pc = "urandom", !.length = length,
                             !.charset = charset]
    /\ UNCHANGED <<sess, accounts, bans, sent, issued>>

\* random_bytes = os.urandom(length)
GenUrandom ==
    /\ gen.pc = "urandom"
    /\ \E random_bytes \in urandom_every_byte(gen.length) :
          gen' = [gen EXCEPT !.pc = "indices", !.random_bytes = random_bytes]
    /\ UNCHANGED <<sess, accounts, bans, sent, issued>>

\* indices = [...]; return "".join([charset[index] for index in indices])
GenReturn ==
    /\ gen.pc = "indices"
    /\ gen' = [gen EXCEPT
                 !.pc = "returned",
                 !.password = generate_password(gen.length, gen.charset,
                                                gen.random_bytes)]
    /\ UNCHANGED <<sess, accounts, bans, sent, issued>>

\* The caller has the password; the next call can start.
GenNext ==
    /\ gen.pc = "returned"
    /\ gen' = NoCall
    /\ UNCHANGED <<sess, accounts, bans, sent, issued>>

InitGen ==
    /\ sess = [s \in Sessions |-> NoSession]
    /\ accounts = (in_bob :> [password |-> in_secret1, email |-> bob_email,
                              valid |-> TRUE, sent_validation |-> FALSE,
                              validation_code |-> NoCode,
                              recorded_email |-> bob_email])
    /\ bans = <<>>
    /\ sent = {}
    /\ issued = [k \in DOMAIN accounts |-> 0]
    /\ gen = NoCall

NextGen ==
    \/ \E call \in GenCalls : GenCall(call[1], call[2])
    \/ GenUrandom
    \/ GenReturn
    \/ GenNext

SpecGen == InitGen /\ [][NextGen]_vars

ByteCount(charset, index) ==
    Cardinality({ byte \in Bytes : byte_index(charset, byte) = index })

\* The charset is one of the two the menu uses.
MenuCharset(charset) == charset \in { digits, ascii_lowercase \o digits }

\* C22, as claimed: for the charset of a call of the menu's (10 digits, 36
\* lowercase letters and digits) every character is given by the same
\* number of the 256 byte values.
C22_Original ==
    (gen.pc # "idle" /\ MenuCharset(gen.charset))
    => \A i, j \in 0..(Len(gen.charset) - 1) :
          ByteCount(gen.charset, i) = ByteCount(gen.charset, j)

\* C22, amended: for the charset of a call of the menu's every character is
\* given by floor(256 / n) or floor(256 / n) + 1 of the 256 byte values, n
\* being the size of the charset: 25 or 26 for the digits, 7 or 8 for the
\* lowercase letters and digits; the numbers of two characters differ by 1
\* at most, and some differ by 1.
C22_ByteCountsDifferByOne ==
    (gen.pc # "idle" /\ MenuCharset(gen.charset))
    => LET n == Len(gen.charset) IN
       /\ \A i \in 0..(n - 1) :
             ByteCount(gen.charset, i) \in { 256 \div n, 256 \div n + 1 }
       /\ \E i, j \in 0..(n - 1) :
             ByteCount(gen.charset, i) = ByteCount(gen.charset, j) + 1
       /\ n = 10 => ByteCount(gen.charset, 0) = 26 /\ ByteCount(gen.charset, 2) = 25
       /\ n = 36 => ByteCount(gen.charset, 0) = 8 /\ ByteCount(gen.charset, 1) = 7

\* C22 witness: a call with the 10 digits returned a password; the digit 0
\* is given by 26 byte values and the digit 2 by 25.
C22_Witness ==
    /\ gen.pc = "returned"
    /\ gen.charset = digits
    /\ gen.length = 4
    /\ ByteCount(digits, 0) = 26
    /\ ByteCount(digits, 2) = 25

-----------------------------------------------------------------------------
(* Whole dialogues: the lines of one user, one after the other *)

\* The node a line is routed to from the menu state st.
Goto(st, raw_string) == option_for(st.options, raw_string)[2]

\* The menu state st once the exec of the option the line selects has run.
Exec(st, raw_string) ==
    [st EXCEPT !.echo = IF option_for(st.options, raw_string)[3] = "echo_on"
                        THEN TRUE ELSE @,
               !.msgs = <<>>]

\* The e-mail of a node that sent exactly one.
TheMail(r) == CHOOSE m \in r.mail : TRUE

\* C23: from start, the lines nouveau, a valid name that no account has, a
\* password of 6 characters or more (the directory creates the account), a
\* valid e-mail address and then the code that was e-mailed to it are routed
\* to create_account, create_username, create_password,
\* create_email_address and validate_account in that order, each node
\* leading to the next, and at the end the account exists under the name
\* with the password and the address, is valid, has no code left, and the
\* session is logged in to it.
C23_NewAccountDialogue ==
    \A s \in CreateSessions, name \in CreateInputs, password \in CreateInputs,
       address \in CreateInputs, random_bytes \in urandom(4) :
        ( /\ sess[s].status = "menu"
          /\ sess[s].node = "start"
          /\ get_account_from_name(accounts, strip(name)) = NoAccount
          /\ Len(strip(name)) >= 3
          /\ \A i \in 1..Len(strip(name)) : strip(name)[i] \in Letters
          /\ Len(strip(password)) >= 6
          /\ validate_email(strip(address)) )
        => LET k  == strip(name)
               r1 == create_account(Exec(sess[s], in_nouveau), accounts)
               r2 == create_username(Exec(r1.st, name), r1.accounts, name)
               r3 == create_password(Exec(r2.st, password), r2.accounts,
                                     password, "created")
               r4 == create_email_address(Exec(r3.st, address), r3.accounts,
                                          address, random_bytes)
               code == TheMail(r4).secret
               r5 == validate_account(Exec(r4.st, code), r4.accounts, code)
           IN  /\ Goto(sess[s], in_nouveau) = "create_account"
               /\ r1.st.status = "menu" /\ Goto(r1.st, name) = "create_username"
               /\ r2.st.status = "menu" /\ Goto(r2.st, password) = "create_password"
               /\ r3.st.status = "menu" /\ Goto(r3.st, address) = "create_email_address"
               /\ k \in DOMAIN r3.accounts /\ r3.st.account = k
               /\ ~r4.raised
               /\ r4.st.status = "menu"
               /\ Cardinality(r4.mail) = 1
               /\ TheMail(r4).to = strip(address)
               /\ Len(code) = 4
               /\ Goto(r4.st, code) = "validate_account"
               /\ ~r5.raised
               /\ r5.st.status = "loggedin"
               /\ r5.st.player = k
               /\ r5.accounts[k].valid
               /\ r5.accounts[k].validation_code = NoCode
               /\ r5.accounts[k].password = strip(password)
               /\ r5.accounts[k].email = strip(address)
               /\ \A j \in DOMAIN accounts : r5.accounts[j] = accounts[j]

\* C23 witness: the account "abc", created in the dialogue with the
\* password "secret1" and the address "a@x.y", is valid and the session is
\* logged in to it from validate_account.
C23_Witness ==
    \E s \in CreateSessions :
        /\ sess[s].status = "loggedin"
        /\ sess[s].node = "validate_account"
        /\ sess[s].player = in_abc
        /\ sess[s].accountname = in_abc
        /\ accounts[in_abc].valid
        /\ accounts[in_abc].password = in_secret1
        /\ accounts[in_abc].recorded_email = in_email
        /\ accounts[in_abc].validation_code = NoCode

\* The recovery dialogue of session s for account k: the name, then the
\* temporary password that was e-mailed, then the new password. The name
\* goes to username, which e-mails one temporary password to the account's
\* address and sets sent_validation; the temporary password goes to
\* check_temporary_password and the new password to
\* change_temporary_password, after which the account is valid with the new
\* password and the session is logged in to it.
RecoveryDialogue(s, k, name, new_password, random_bytes) ==
    LET r1 == username(Exec(sess[s], name), accounts, name, random_bytes)
        temporary == TheMail(r1).secret
        r2 == check_temporary_password(Exec(r1.st, temporary), r1.accounts,
                                       temporary)
        r3 == change_temporary_password(Exec(r2.st, new_password), r2.accounts,
                                        new_password)
    IN  /\ Goto(sess[s], name) = "username"
        /\ Cardinality(r1.mail) = 1
        /\ TheMail(r1).kind = "temp_password"
        /\ TheMail(r1).to = accounts[k].email
        /\ TheMail(r1).to # <<>>
        /\ Len(temporary) = 6
        /\ r1.accounts[k].sent_validation
        /\ r1.accounts[k].password = temporary
        /\ r1.st.status = "menu"
        /\ Goto(r1.st, temporary) = "check_temporary_password"
        /\ r2.st.status = "menu"
        /\ r2.accounts = r1.accounts
        /\ Goto(r2.st, new_password) = "change_temporary_password"
        /\ r3.st.status = "loggedin"
        /\ r3.st.player = k
        /\ r3.accounts[k].valid
        /\ r3.accounts[k].password = strip(new_password)

\* C24, as claimed: from start, for every account that is not valid, has
\* no validation code and has sent_validation unset, the recovery dialogue
\* takes place.
C24_Original ==
    \A s \in Sessions, name \in LoginInputs, new_password \in LoginInputs,
       random_bytes \in urandom(6) :
        \A k \in DOMAIN accounts :
            ( /\ sess[s].status = "menu"
              /\ sess[s].node = "start"
              /\ Resolves(name, k)
              /\ ~accounts[k].valid
              /\ accounts[k].validation_code = NoCode
              /\ ~accounts[k].sent_validation
              /\ validate_password(strip(new_password)) )
            => RecoveryDialogue(s, k, name, new_password, random_bytes)

\* C24, amended: from start, for every account that has an e-mail on file,
\* is not valid, has no validation code and has sent_validation unset, the
\* recovery dialogue takes place.
C24_RecoveryDialogueWithEmail ==
    \A s \in Sessions, name \in LoginInputs, new_password \in LoginInputs,
       random_bytes \in urandom(6) :
        \A k \in DOMAIN accounts :
            ( /\ sess[s].status = "menu"
              /\ sess[s].node = "start"
              /\ Resolves(name, k)
              /\ accounts[k].email # <<>>
              /\ ~accounts[k].valid
              /\ accounts[k].validation_code = NoCode
              /\ ~accounts[k].sent_validation
              /\ validate_password(strip(new_password)) )
            => RecoveryDialogue(s, k, name, new_password, random_bytes)

\* C24 witness: a session typed no wrong line, holds the account that was
\* sent one temporary password, and is logged in to it from
\* change_temporary_password with the new password of 8 characters.
C24_Witness ==
    \E s \in Sessions :
        /\ sess[s].status = "loggedin"
        /\ sess[s].node = "change_temporary_password"
        /\ sess[s].password_attempts = 0
        /\ sess[s].player = in_bob
        /\ accounts[in_bob].valid
        /\ accounts[in_bob].sent_validation
        /\ accounts[in_bob].email = bob_email
        /\ accounts[in_bob].validation_code = NoCode
        /\ accounts[in_bob].password = in_hunter22
        /\ issued[in_bob] = 1

-----------------------------------------------------------------------------
(* Two sessions that create accounts at the same time, beside the valid    *)
(* account "bob": both may pass create_username with the same name before  *)
(* either reaches create_password.                                         *)

RaceLines == { in_nouveau, in_abc, in_secret1, in_email }

RaceInputs == RaceLines \cup Secrets

InitRace ==
    /\ sess = [s \in Sessions |-> NoSession]
    /\ accounts = (in_bob :> [password |-> in_secret1, email |-> bob_email,
                              valid |-> TRUE, sent_validation |-> FALSE,
                              validation_code |-> NoCode,
                              recorded_email |-> bob_email])
    /\ bans = <<>>
    /\ sent = {}
    /\ issued = [k \in DOMAIN accounts |-> 0]
    /\ gen = NoCall

NextRace ==
    \E s \in Sessions :
        \/ Connect(s)
        \/ \E raw \in RaceInputs :
              \/ Start(s, raw)
              \/ Username(s, raw)
              \/ AskPassword(s, raw)
              \/ CreateAccount(s, raw)
              \/ CreateUsername(s, raw)
              \/ CreatePassword(s, raw)
              \/ CreateEmailAddress(s, raw)
              \/ ValidateAccount(s, raw)

SpecRace == InitRace /\ [][NextRace]_vars

\* Session u goes on to create_email_address with the account of its name.
Won(u) ==
    /\ sess[u].status = "menu"
    /\ sess[u].node = "create_password"
    /\ sess[u].text = "account_created"
    /\ sess[u].account = sess[u].accountname
    /\ sess[u].accountname \in DOMAIN accounts

\* The result r of create_password is the outcome of a directory failure:
\* the apology, no account of the session's name held, no way on to
\* create_email_address, no account changed.
Lost(u, r) ==
    /\ r.st.msgs = <<"apology">>
    /\ r.st.text = ""
    /\ r.st.account # sess[u].accountname
    /\ \A raw \in RaceInputs : Goto(r.st, raw) # "create_email_address"
    /\ r.accounts = accounts

\* C25, as claimed: two sessions that stashed the same name never both go
\* on to create_email_address with the account; and when one has, an
\* acceptable password of the other at create_password has the outcome of
\* a directory failure, whatever the directory answers for the name that is
\* now taken, and the other does not hold the account.
C25_OneCreatorOtherFails ==
    \A s \in Sessions, t \in Sessions :
        ( /\ s # t
          /\ sess[s].accountname = sess[t].accountname
          /\ Won(s) )
        => /\ ~Won(t)
           /\ \A raw \in RaceInputs :
                 ( /\ Enters(t, raw, "create_password")
                   /\ Len(strip(raw)) >= 6 )
                 => \A outcome \in CreateOutcomes(accounts, sess[t].accountname) :
                       Lost(t, CreatePasswordResult(t, raw, outcome))

-----------------------------------------------------------------------------
(* One session that can visit every node of the menu: it logs in to, or    *)
(* recovers, the account "bob", which has an e-mail on file, or creates an *)
(* account.                                                                *)

TourLines ==
    { in_Bob, in_abc, in_nouveau, in_quit, in_r, in_hunter22, in_email }

TourInputs == TourLines \cup Secrets

TourSessions == {1}

InitTour ==
    /\ sess = [s \in Sessions |-> NoSession]
    /\ accounts \in { a \in InitialAccounts :
                         a[in_bob].email # <<>> /\ ~a[in_bob].sent_validation }
    /\ bans \in { <<>>, << <<in_bob, <<>>, <<>> >> >> }
    /\ sent = {}
    /\ issued = [k \in DOMAIN accounts |-> 0]
    /\ gen = NoCall

NextTour ==
    \E s \in TourSessions :
        \/ Connect(s)
        \/ \E raw \in TourInputs :
              \/ Start(s, raw)
              \/ Username(s, raw)
              \/ AskPassword(s, raw)
              \/ CreateAccount(s, raw)
              \/ CreateUsername(s, raw)
              \/ CreatePassword(s, raw)
              \/ CreateEmailAddress(s, raw)
              \/ ValidateAccount(s, raw)
              \/ Quit(s, raw)
              \/ CheckTemporaryPassword(s, raw)
              \/ ChangeTemporaryPassword(s, raw)

SpecTour == InitTour /\ [][NextTour]_vars

\* C26: the options of a session in the menu contain a default option, so
\* every line selects an option; a session has no options only before its
\* connection or once it was logged in or disconnected, and a disconnection
\* is one by quit, by the count of wrong passwords or by a ban.
C26_DefaultOptionOrEnd ==
    \A s \in TourSessions :
        /\ sess[s].status = "menu"
           => /\ \E o \in sess[s].options : o[1] = "_default"
              /\ \A raw \in TourInputs :
                    option_for(sess[s].options, raw) # NoOption
        /\ sess[s].options = {}
           => sess[s].status \in {"none", "loggedin", "disconnected"}
        /\ sess[s].status \in {"loggedin", "disconnected"}
           => sess[s].options = {}
        /\ sess[s].status = "disconnected"
           => sess[s].farewell \in {"goodbye", "too_many_attempts", "banned"}

\* C26 witness: after a refused name at create_username a line that is no
\* key of the options selects the default option, and r selects start.
C26_Witness ==
    \E s \in TourSessions :
        /\ sess[s].status = "menu"
        /\ sess[s].node = "create_username"
        /\ sess[s].text = "username_exists"
        /\ option_for(sess[s].options, in_email)
           = <<"_default", "create_username", "none">>
        /\ option_for(sess[s].options, in_r) = <<"r", "start", "none">>

-----------------------------------------------------------------------------
(* Two accounts: "bob", valid, and "amy", not valid yet, whose temporary   *)
(* password is sent when her name is entered. A session can go from one to  *)
(* the other through start.                                                *)

in_amy    == <<"a","m","y">>
amy_email == <<"m","@","x",".","y">>

TwoLines == { in_Bob, in_amy, in_r, in_hunter22 }

TwoInputs == TwoLines \cup Secrets

InitTwo ==
    /\ sess = [s \in Sessions |-> NoSession]
    /\ accounts =
          (in_bob :> [password |-> in_secret1, email |-> bob_email,
                      valid |-> TRUE, sent_validation |-> FALSE,
                      validation_code |-> NoCode, recorded_email |-> bob_email])
          @@ (in_amy :> [password |-> in_passwd, email |-> amy_email,
                         valid |-> FALSE, sent_validation |-> FALSE,
                         validation_code |-> NoCode, recorded_email |-> <<>>])
    /\ bans \in { <<>>, << <<in_amy, <<>>, <<>> >> >>,
                  << <<<<>>, <<10, 0, Wild, 1>>, <<10, 0, Wild, 1>> >> >> }
    /\ sent = {}
    /\ issued = [k \in DOMAIN accounts |-> 0]
    /\ gen = NoCall

NextTwo ==
    \E s \in Sessions :
        \/ Connect(s)
        \/ \E raw \in TwoInputs :
              \/ Start(s, raw)
              \/ Username(s, raw)
              \/ AskPassword(s, raw)
              \/ CheckTemporaryPassword(s, raw)
              \/ ChangeTemporaryPassword(s, raw)

SpecTwo == InitTwo /\ [][NextTwo]_vars

\* The results the node that a line of session s is routed to can return.
StepResults(s, raw) ==
    LET st   == Before(s, raw)
        node == Goto(sess[s], raw)
    IN  CASE node = "start" -> { start(st, accounts) }
          [] node = "username" ->
                { username(st, accounts, raw, random_bytes) :
                    random_bytes \in urandom(6) }
          [] node = "ask_password" ->
                { ask_password(st, accounts, bans, Address(s), raw) }
          [] node = "create_account" -> { create_account(st, accounts) }
          [] node = "create_username" -> { create_username(st, accounts, raw) }
          [] node = "create_password" ->
                { create_password(st, accounts, raw, outcome) :
                    outcome \in CreateOutcomes(accounts, sess[s].accountname) }
          [] node = "create_email_address" ->
                { create_email_address(st, accounts, raw, random_bytes) :
                    random_bytes \in urandom(4) }
          [] node = "validate_account" -> { validate_account(st, accounts, raw) }
          [] node = "quit" -> { quit(st, accounts) }
          [] node = "check_temporary_password" ->
                { check_temporary_password(st, accounts, raw) }
          [] node = "change_temporary_password" ->
                { change_temporary_password(st, accounts, raw) }
          [] OTHER -> {}

\* The session s after a step with result r.
AfterStep(s, raw, r) ==
    IF r.raised THEN [Before(s, raw) EXCEPT !.msgs = <<"menu_error">>] ELSE r.st

\* The line of session s is compared with a password and is not the password.
FailedComparison(s, raw) ==
    /\ Goto(sess[s], raw) \in {"ask_password", "check_temporary_password"}
    /\ accounts[sess[s].account].password # strip(raw)

\* C27: the count of wrong passwords of a session is between 0 and 2 and
\* no step of the menu lowers it: not start after r, not username with
\* another name, not the way from ask_password to
\* check_temporary_password. A wrong password at ask_password or at
\* check_temporary_password adds 1 to it while it is below 2 and
\* disconnects the session when it is 2, and no other step changes it: the
\* third wrong password of a session, wherever typed, disconnects it.
C27_ThreeFailuresInAll ==
    \A s \in Sessions :
        /\ sess[s].password_attempts \in 0..2
        /\ sess[s].status = "menu"
           => \A raw \in TwoInputs : \A r \in StepResults(s, raw) :
                 LET after == AfterStep(s, raw, r) IN
                 IF FailedComparison(s, raw)
                 THEN IF sess[s].password_attempts = 2
                      THEN /\ after.status = "disconnected"
                           /\ after.farewell = "too_many_attempts"
                      ELSE /\ after.status = "menu"
                           /\ after.password_attempts
                              = sess[s].password_attempts + 1
                 ELSE after.password_attempts = sess[s].password_attempts

\* C27 witness: a session with two wrong passwords counted at ask_password
\* for bob went back to start and entered the name of amy: it is asked for
\* her temporary password with the count still at 2.
C27_Witness ==
    \E s \in Sessions :
        /\ sess[s].status = "menu"
        /\ sess[s].node = "username"
        /\ sess[s].account = in_amy
        /\ sess[s].password_attempts = 2
        /\ Goto(sess[s], in_hunter22) = "check_temporary_password"

\* C28: after a wrong temporary password at check_temporary_password the
\* line r is routed to start, and it is no attempt: the session stays in
\* the menu with the same count of wrong passwords.
C28_RefusedTemporaryPasswordOffersR ==
    \A s \in Sessions :
        ( /\ sess[s].status = "menu"
          /\ sess[s].node = "check_temporary_password"
          /\ sess[s].text = "invalid_password" )
        => /\ Goto(sess[s], in_r) = "start"
           /\ \A r \in StepResults(s, in_r) :
                 /\ AfterStep(s, in_r, r).status = "menu"
                 /\ AfterStep(s, in_r, r).password_attempts
                    = sess[s].password_attempts

\* C29: no session is logged in, from ask_password, validate_account or
\* change_temporary_password, while the name of its account or its address
\* matches an entry of the ban list.
C29_NoLoginWhileBanned ==
    \A s \in Sessions :
        sess[s].status = "loggedin"
        => ~is_banned(bans, sess[s].player, Address(s))

\* The next line of session s is a password for ask_password or
\* create_password.
AwaitsPassword(s) ==
    Goto(sess[s], <<>>) \in {"ask_password", "create_password"}

\* C30: echo is off only while the next line is a password for ask_password
\* or create_password: a session waiting for a line for any other node has
\* echo on, and so has every session that is logged in.
C30_EchoOffOnlyForPassword ==
    \A s \in Sessions :
        /\ ( sess[s].status = "menu" /\ sess[s].options # {}
             /\ ~AwaitsPassword(s) ) => sess[s].echo = TRUE
        /\ sess[s].status = "loggedin" => sess[s].echo = TRUE

\* C31: a session whose next line goes to validate_account holds an account
\* with a validation code on file, and that code, entered now, logs the
\* session in, whatever the other sessions did to the account meanwhile.
C31_AwaitedCodeIsOnFile ==
    \A s \in Sessions :
        ( sess[s].status = "menu"
          /\ Goto(sess[s], <<>>) = "validate_account" )
        => /\ sess[s].account \in DOMAIN accounts
           /\ accounts[sess[s].account].validation_code # NoCode
           /\ LET code == accounts[sess[s].account].validation_code
                  r    == validate_account(Before(s, code), accounts, code)
              IN  /\ ~r.raised
                  /\ r.st.status = "loggedin"
                  /\ r.st.player = sess[s].account

\* C32: the name of every account, entered at start, is routed to username:
\* no account that create_username and create_password made has a name that
\* start reads as one of its keywords, "nouveau" or "quit", in any case.
C32_EveryNameLogsInFromStart ==
    \A name \in DOMAIN accounts :
        option_for(start(NoSession, accounts).st.options, name)[2] = "username"

\* The account is one whose name, entered at username, must change nothing.
Settled(acc) ==
    \/ acc.valid
    \/ acc.sent_validation
    \/ acc.validation_code # NoCode

\* C33: a name entered at username changes no attribute of an account that
\* is valid, that has sent_validation set or that has a validation code, and
\* sends no mail about it. The accounts stay the same for every name but
\* that of an account with an e-mail on file and none of the three: of that
\* account the password and sent_validation change, nothing else.
C33_UsernameKeepsSettledAccounts ==
    \A s \in Sessions : \A raw \in LoginInputs : \A random_bytes \in urandom(6) :
        Enters(s, raw, "username")
        => LET r == username(Before(s, raw), accounts, raw, random_bytes) IN
           /\ ~r.raised
           /\ DOMAIN r.accounts = DOMAIN accounts
           /\ \A k \in DOMAIN accounts :
                 /\ Settled(accounts[k])
                    => /\ r.accounts[k] = accounts[k]
                       /\ \A m \in r.mail : m.account # k
                 /\ r.accounts[k] # accounts[k]
                    => /\ Resolves(raw, k)
                       /\ accounts[k].email # <<>>
                       /\ ~Settled(accounts[k])
                       /\ r.accounts[k]
                          = [accounts[k] EXCEPT
                               !.password = r.accounts[k].password,
                               !.sent_validation = TRUE]

\* C33 witness: the name of the valid account bob was entered at username:
\* the session is asked for the password, and bob's password and
\* attributes are those the account had before.
C33_Witness ==
    \E s \in Sessions :
        /\ sess[s].status = "menu"
        /\ sess[s].node = "username"
        /\ sess[s].text = "ask_password"
        /\ sess[s].account = in_bob
        /\ accounts[in_bob].valid
        /\ accounts[in_bob].password = in_secret1
        /\ ~accounts[in_bob].sent_validation
        /\ sent = {}

====
